---- MODULE Spec2Model ----
(***************************************************************************)
(* The wine-variety evaluation pipeline of evals_and_disillation:          *)
(* run_evaluation.ts (runEvaluation), step2_get_output.ts (main /          *)
(* runPredictions, processBatch, getPrediction, saveResults) and           *)
(* step3_analyze_results.ts (readPredictionsFile, calculateWineAccuracy,   *)
(* analyzePredictions).  The remote model API is the environment: every    *)
(* call in flight is answered by one of its possible responses.            *)
(***************************************************************************)
EXTENDS Integers, Sequences, FiniteSets, TLC

(***************************************************************************)
(* Bounds of the model.                                                    *)
(***************************************************************************)
\* rows of each dataset file (some of them malformed)
FileRows == 14
\* distinct grape varieties of the datasets
NumLabels == 3
\* API responses of one run that are not the record's ground truth
MaxFaults == 3
\* largest retry budget getPrediction is called with in SpecRetries
MaxRetries == 4
\* records of the end-to-end scenario
E2ERecords == 10
\* The source sets 200 (a batch of 50 records); the model scales the budget
\* down so that a run of a few records has several batches, each larger
\* than the concurrency limit.
REQUESTS_PER_MINUTE == 16
\* saveResults calls of the result-writer harness (SpecWriter)
MaxSaves == 3
\* rows of the files the dataset reader is given in SpecReader
ReaderRows == 4
\* predictions calculateWineAccuracy is given in SpecAccuracy
MaxPredictions == 7

(***************************************************************************)
(* Program constants.                                                      *)
(***************************************************************************)
ConcurrencyLimit == 3
DefaultRetries == 3
BackoffUnitMs == 1000
InterBatchDelayMs == 30000
BATCH_SIZE == REQUESTS_PER_MINUTE \div 4

BaseModel == "gpt-4o"
trainDataPath == "./data/winemag_train_dataset.csv"
validationDataPath == "./data/winemag_validation_dataset.csv"

Min(a, b) == IF a < b THEN a ELSE b
Max(a, b) == IF a > b THEN a ELSE b

(***************************************************************************)
(* The dataset files.  A row whose winery, variety or description is empty *)
(* is a malformed row.                                                     *)
(***************************************************************************)
AllLabels == <<"Merlot", "Riesling", "Malbec", "Syrah", "Gamay", "Zinfandel">>

CsvRow(r) ==
  [winery      |-> IF r % 12 = 3 THEN "" ELSE "W" \o ToString(r),
   variety     |-> IF r % 12 = 7 THEN "" ELSE AllLabels[((r - 1) % NumLabels) + 1],
   description |-> IF r % 12 = 11 THEN "" ELSE "notes"]

TrainFile == [r \in 1..FileRows |-> CsvRow(r)]
ValidationFile == [r \in 1..FileRows |-> CsvRow(r + 1)]

FileAt(path) == IF path = trainDataPath THEN TrainFile ELSE ValidationFile

\* getUniqueVarieties: the distinct non-empty varieties, in order of first
\* occurrence (Array.from of a Set)
RECURSIVE UniqueFrom(_, _, _)
UniqueFrom(file, r, acc) ==
  IF r > Len(file) THEN acc
  ELSE LET v == file[r].variety
       IN UniqueFrom(file, r + 1,
            IF v # "" /\ ~(\E j \in 1..Len(acc) : acc[j] = v)
              THEN Append(acc, v) ELSE acc)

getUniqueVarieties(path) == UniqueFrom(FileAt(path), 1, <<>>)

\* the test without its last operand
IsValidRow_noDescription(record) ==
  record.winery # "" /\ record.variety # ""

\* the 'data' handler of main: a row is kept when winery, variety and
\* description are all truthy
IsValidRow(record) ==
  record.winery # "" /\ record.variety # "" /\ record.description # ""

validRecords(file) == SelectSeq(file, IsValidRow)

validRecordsOf(path) == validRecords(FileAt(path))

\* sampleRecords: slice(0) for -1, slice(0, numSamples) otherwise
sampleRecords(records, n) ==
  IF n = -1 THEN records
  ELSE IF n >= 0 THEN SubSeq(records, 1, Min(n, Len(records)))
  ELSE SubSeq(records, 1, Max(0, Len(records) + n))

\* getDatasetType: datasetPath.includes('train')
getDatasetType(datasetPath) ==
  IF datasetPath = trainDataPath THEN "train" ELSE "validation"

\* runEvaluation: dataset === 'train' ? trainDataPath : validationDataPath
DatasetPath(dataset) ==
  IF dataset = "train" THEN trainDataPath ELSE validationDataPath

(***************************************************************************)
(* The prediction files.  A file is a sequence of lines, a line a tuple of *)
(* text cells.  csv-writer writes the object's fields in the order of the  *)
(* header array; a writer created with append: true opens the file for     *)
(* appending (creating it when missing) and writes no header line.         *)
(***************************************************************************)
RunTimestamp == "11-04-19-48"

HeaderLine ==
  <<"Record ID", "Model", "Prediction", "Timestamp", "Winery",
    "Original Variety", "Actual Variety">>

PredictionsPath(model, datasetType, timestamp) ==
  [model |-> model, datasetType |-> datasetType, timestamp |-> timestamp]

\* a writer created without append: true
createCsvWriter_noAppend(model, timestamp, datasetType) ==
  [path |-> PredictionsPath(model, datasetType, timestamp), append |-> FALSE]

\* createCsvWriter: the path and the append flag of the writer
createCsvWriter(model, timestamp, datasetType) ==
  [path |-> PredictionsPath(model, datasetType, timestamp), append |-> TRUE]

\* one PredictionResult as a CSV line
StringifyRecord(p) ==
  <<ToString(p.recordId), p.model, p.prediction, p.timestamp, p.winery,
    p.variety, p.actual_variety>>

StringifyRecords(results) ==
  [k \in 1..Len(results) |-> StringifyRecord(results[k])]

\* csvWriter.writeRecords as it acts on the disk
writeRecords(writer, fs, results) ==
  LET old == IF writer.append /\ writer.path \in DOMAIN fs
               THEN fs[writer.path] ELSE <<>>
      headerString == IF writer.append THEN <<>> ELSE <<HeaderLine>>
      content == old \o headerString \o StringifyRecords(results)
  IN [p \in DOMAIN fs \cup {writer.path} |->
        IF p = writer.path THEN content ELSE fs[p]]

(***************************************************************************)
(* readPredictionsFile: header: false, so every line of the file is a data *)
(* row; dynamicTyping turns a numeric cell into a number.                  *)
(***************************************************************************)
MaxNumeric == FileRows + BATCH_SIZE

IsNumeric(cell) == \E n \in 0..MaxNumeric : ToString(n) = cell

DynamicTyping(cell) ==
  [type |-> IF IsNumeric(cell) THEN "number" ELSE "string", text |-> cell]

\* String(value) of a dynamically typed cell
StringOf(value) ==
  IF value.type = "number"
    THEN ToString(CHOOSE n \in 0..MaxNumeric : ToString(n) = value.text)
    ELSE value.text

\* a slip in the column indices: the prediction read from the next column
mapRecord_nextColumn(line) ==
  [recordId       |-> DynamicTyping(line[1]),
   model          |-> DynamicTyping(line[2]),
   prediction     |-> StringOf(DynamicTyping(line[4])),
   timestamp      |-> StringOf(DynamicTyping(line[4])),
   winery         |-> StringOf(DynamicTyping(line[5])),
   variety        |-> StringOf(DynamicTyping(line[6])),
   actual_variety |-> StringOf(DynamicTyping(line[7]))]

mapRecord(line) ==
  [recordId       |-> DynamicTyping(line[1]),
   model          |-> DynamicTyping(line[2]),
   prediction     |-> StringOf(DynamicTyping(line[3])),
   timestamp      |-> StringOf(DynamicTyping(line[4])),
   winery         |-> StringOf(DynamicTyping(line[5])),
   variety        |-> StringOf(DynamicTyping(line[6])),
   actual_variety |-> StringOf(DynamicTyping(line[7]))]

\* the validation without the test of the model field
validateWinePredictionRecord_noModel(record) ==
  record.recordId.type \in {"number", "string"}

validateWinePredictionRecord(record) ==
  /\ record.recordId.type \in {"number", "string"}
  /\ record.model.type = "string"

\* the records readPredictionsFile collects from an existing file
parsedRecords(lines) ==
  SelectSeq([k \in 1..Len(lines) |-> mapRecord(lines[k])],
            validateWinePredictionRecord)

\* what readPredictionsFile settles with
readPredictionsFile(fs, path) ==
  IF path \notin DOMAIN fs
    THEN [ok |-> FALSE, error |-> "File not found", records |-> <<>>]
  ELSE IF Len(parsedRecords(fs[path])) = 0
    THEN [ok |-> FALSE, error |-> "No valid records found", records |-> <<>>]
  ELSE [ok |-> TRUE, error |-> "", records |-> parsedRecords(fs[path])]

(***************************************************************************)
(* calculateWineAccuracy.  accuracy is the fraction correct / total, kept  *)
(* as the pair of its numerator and denominator.                           *)
(***************************************************************************)
MaxIncorrectExamples == 5

\* the comparison inverted
IsMismatch_inverted(prediction) ==
  prediction.prediction = prediction.actual_variety

IsMismatch(prediction) == prediction.prediction # prediction.actual_variety

\* predicted and actual exchanged
Example_swapped(prediction) ==
  [winery |-> prediction.winery, predicted |-> prediction.actual_variety,
   actual |-> prediction.prediction]

Example(prediction) ==
  [winery |-> prediction.winery, predicted |-> prediction.prediction,
   actual |-> prediction.actual_variety]

calculateWineAccuracy(predictions) ==
  LET wrong == SelectSeq(predictions, IsMismatch)
      correctPredictions == Len(predictions) - Len(wrong)
      examples == [k \in 1..Len(wrong) |-> Example(wrong[k])]
  IN IF Len(predictions) = 0
       THEN [ok |-> FALSE, error |-> "No predictions to analyze"]
       ELSE [ok |-> TRUE, error |-> "",
             model |-> StringOf(predictions[1].model),
             totalPredictions |-> Len(predictions),
             correctPredictions |-> correctPredictions,
             accuracy |-> <<correctPredictions, Len(predictions)>>,
             incorrectExamples |->
               SubSeq(examples, 1, Min(MaxIncorrectExamples, Len(examples)))]

\* analyzePredictions: the set of its possible outcomes.  Both files are
\* read concurrently; a missing file rejects at once, an empty one only when
\* its stream ends, and the first rejection is the error of the analysis.
analyzePredictions(fs, baseModelFile, comparisonModelFile) ==
  LET base == readPredictionsFile(fs, baseModelFile)
      comp == readPredictionsFile(fs, comparisonModelFile)
      missing == {r \in {base, comp} : ~r.ok /\ r.error = "File not found"}
      failed == {r \in {base, comp} : ~r.ok}
  IN IF base.error = "File not found" THEN {[ok |-> FALSE, error |-> base.error]}
     ELSE IF missing # {} THEN {[ok |-> FALSE, error |-> r.error] : r \in missing}
     ELSE IF failed # {} THEN {[ok |-> FALSE, error |-> r.error] : r \in failed}
     ELSE {[ok |-> TRUE, error |-> "",
            base |-> calculateWineAccuracy(base.records),
            comparison |-> calculateWineAccuracy(comp.records),
            sameLength |-> Len(base.records) = Len(comp.records)]}

(***************************************************************************)
(* getPrediction, for one record of a batch.  A task is the closure that   *)
(* processBatch hands to the limiter: st is where it stands, attempt the   *)
(* loop counter of getPrediction, calls the API calls it has issued, waits *)
(* the backoff delays it has slept, err the error caught last, response    *)
(* the API response received last.                                         *)
(***************************************************************************)
NoResponse == [kind |-> "none", variety |-> ""]

NewTask ==
  [st |-> "queued", attempt |-> 0, calls |-> 0, waits |-> <<>>, err |-> "",
   prediction |-> "", response |-> NoResponse]

\* the responses of the remote API to a call for a record: a structured
\* payload, a refusal, a message with neither, or a failed call
Responses(truth, labels, left) ==
  {[kind |-> "parsed", variety |-> truth]} \cup
  (IF left = 0 THEN {}
   ELSE {[kind |-> "parsed", variety |-> labels[j]] : j \in 1..Len(labels)} \cup
        {[kind |-> k, variety |-> ""] : k \in {"refusal", "empty", "error"}})

IsFault(resp, truth) == ~(resp.kind = "parsed" /\ resp.variety = truth)

\* what the try block throws for a response without a structured payload
ErrorOf(resp) ==
  IF resp.kind = "error" THEN "API call failed"
  ELSE IF resp.kind = "refusal" THEN "Model refused to classify"
  ELSE "No valid response received"

\* Math.pow(2, attempt) * 1000
BackoffDelay(attempt) == (2 ^ attempt) * BackoffUnitMs

\* a slip in the last-attempt test: attempt === retries - 1
IsLastAttempt_offByOne(attempt, budget) == attempt = budget - 1

\* catch: if (attempt === retries) throw error
IsLastAttempt(attempt, budget) == attempt = budget

\* the try/catch of one loop iteration, when the awaited call settles
getPredictionOnResponse(t, resp, budget) ==
  IF resp.kind = "parsed"
    THEN [t EXCEPT !.st = "returned", !.prediction = resp.variety,
                   !.response = resp]
  ELSE IF IsLastAttempt(t.attempt, budget)
    THEN [t EXCEPT !.st = "threw", !.err = ErrorOf(resp), !.response = resp]
  ELSE [t EXCEPT !.st = "backoff", !.err = ErrorOf(resp), !.response = resp,
                 !.waits = Append(@, BackoffDelay(t.attempt))]

\* the loop after the backoff delay: the next attempt, or, the loop being
\* over, throw new Error('All retries failed')
getPredictionAfterDelay(t, budget) ==
  IF t.attempt + 1 <= budget
    THEN [t EXCEPT !.st = "calling", !.attempt = @ + 1, !.calls = @ + 1,
                   !.err = ""]
    ELSE [t EXCEPT !.st = "threw", !.attempt = @ + 1,
                   !.err = "All retries failed"]

(***************************************************************************)
(* processBatch.                                                           *)
(***************************************************************************)
IsoNow == "2026-11-04T19:48:00.000Z"

\* processBatch without its try/catch: the error of getPrediction escapes
processBatchSettle_noCatch(t) ==
  IF t.st = "returned" THEN [t EXCEPT !.st = "ok"] ELSE t

\* the try/catch around getPrediction: a PredictionResult, or null
processBatchSettle(t) ==
  IF t.st = "returned" THEN [t EXCEPT !.st = "ok"]
  ELSE IF t.st = "threw" THEN [t EXCEPT !.st = "null"]
  ELSE t

PredictionResult(record, recordId, model, prediction) ==
  [recordId |-> recordId, model |-> model, prediction |-> prediction,
   timestamp |-> IsoNow, winery |-> record.winery, variety |-> record.variety,
   actual_variety |-> record.variety]

\* a slip in the record identifier: the index within the batch
RecordIdOf_noOffset(startIdx, index) == index

\* recordId: startIdx + index
RecordIdOf(startIdx, index) == startIdx + index

\* p-limit: the closures that hold a slot
activeCount(ts) ==
  Cardinality({k \in DOMAIN ts : ts[k].st \in {"calling", "backoff"}})

\* a slip in the limiter: one closure more than the limit
HasFreeSlot_offByOne(ts) == activeCount(ts) <= ConcurrencyLimit

HasFreeSlot(ts) == activeCount(ts) < ConcurrencyLimit

\* p-limit: start queued closures, first in first out, while a slot is
\* free; a started closure runs up to its first API call
RECURSIVE pLimitNext(_)
pLimitNext(ts) ==
  LET queued == {k \in DOMAIN ts : ts[k].st = "queued"}
      first == CHOOSE k \in queued : \A j \in queued : k <= j
  IN IF queued = {} \/ ~HasFreeSlot(ts) THEN ts
     ELSE pLimitNext([ts EXCEPT ![first] =
            [@ EXCEPT !.st = "calling", !.attempt = 1, !.calls = 1]])

\* Promise.all(promises) followed by the filter of the nulls
Fulfilled(ts) == \A k \in DOMAIN ts : ts[k].st \in {"ok", "null"}
Rejected(ts) == \E k \in DOMAIN ts : ts[k].st = "threw"

IsResult(t) == t.st = "ok"

batchResultsOf(ts, records, startIdx, model) ==
  LET all == [k \in 1..Len(ts) |->
                [st |-> ts[k].st,
                 result |-> PredictionResult(records[k], RecordIdOf(startIdx, k - 1),
                                             model, ts[k].prediction)]]
      kept == SelectSeq(all, IsResult)
  IN [k \in 1..Len(kept) |-> kept[k].result]

(***************************************************************************)
(* saveResults.                                                            *)
(***************************************************************************)
\* a slip in the empty test: a batch of one result is not written either
SkipsWrite_offByOne(results) == Len(results) <= 1

SkipsWrite(results) == Len(results) = 0

saveResultsWrite(fs, results, model, timestamp, datasetPath) ==
  writeRecords(createCsvWriter(model, timestamp, getDatasetType(datasetPath)),
               fs, results)

(***************************************************************************)
(* The state of a run.                                                     *)
(***************************************************************************)
VARIABLES
  argvModel,        \* the command line: process.argv[2], "" when missing
  comparisonModel,  \* runEvaluation's config: the model compared to gpt-4o
  datasets,         \* runEvaluation's config: the datasets to evaluate
  numSamples,       \* runEvaluation's config: the sample limit
  retries,          \* the retry budget getPrediction runs with
  faultBudget,      \* environment: how often the API may deviate in the run
  faults,           \* environment: how often it has deviated
  pc,               \* where runEvaluation / main stands
  dsIdx,            \* runEvaluation: index of the dataset in process
  varieties,        \* main: the label set of the response schema
  sampledRecords,   \* main: the records to predict
  mIdx,             \* main: index of the model in process
  i,                \* main: offset of the batch in process
  batchVarieties,   \* processBatch: the label set of the prompts
  tasks,            \* processBatch: the closures handed to the limiter
  batchResults,     \* main: what the last processBatch resolved with
  disk,             \* the prediction files: path -> lines
  pendingWrites,    \* writeRecords calls that have not completed
  reports,          \* analyzePredictions: the reports printed
  summaries,        \* analyzePredictions: the summary files written
  runError,         \* the error runEvaluation rejected with
  exitCode,         \* <<the exit code of the process>>, <<>> while it runs
  produced,         \* history: the labels getPrediction returned
  saveLog,          \* history: the completed saveResults calls
  batchLog,         \* history: the batches main handed to processBatch
  pausedMs,         \* history: main's setTimeout since processBatch resolved
  varietiesReads,   \* history: the getUniqueVarieties calls of the run
  callArg,          \* the harnesses of single functions: the argument
  callResult        \* the harnesses of single functions: what was returned

vars ==
  <<argvModel, comparisonModel, datasets, numSamples, retries, faultBudget,
    faults, pc, dsIdx,
    varieties, sampledRecords, mIdx, i, batchVarieties, tasks, batchResults,
    disk, pendingWrites, reports, summaries, runError, exitCode, produced,
    saveLog, batchLog, pausedMs, varietiesReads, callArg, callResult>>

config ==
  <<argvModel, comparisonModel, datasets, numSamples, retries, faultBudget>>

\* what the pipeline leaves alone: the process exit and the harnesses
outer == <<exitCode, callArg, callResult>>

history == <<batchLog, pausedMs, varietiesReads>>

ComparisonModels == {"gpt-4o-mini", "ft:gpt-4o-mini:distilled"}
DatasetChoices == {<<"train">>, <<"validation">>, <<"train", "validation">>}

\* for (const model of ['gpt-4o', comparisonModel])
Models == <<BaseModel, comparisonModel>>

dataset == datasets[dsIdx]
datasetPath == DatasetPath(dataset)
model == Models[mIdx]

\* runEvaluation: comparisonModel === 'gpt-4o-mini' &&
\* datasets.includes('train'), computed once and handed to every main
storeCompletions ==
  /\ comparisonModel = "gpt-4o-mini"
  /\ \E d \in DOMAIN datasets : datasets[d] = "train"

\* getPrediction: isBaseModel && storeCompletions
shouldStore(m, store) == m = BaseModel /\ store

\* the body of the API calls getPrediction issues in the batch in process
RequestBody ==
  [model |-> model,
   store |-> shouldStore(model, storeCompletions),
   metadata |-> IF shouldStore(model, storeCompletions)
                  THEN <<"wine-classification", RunTimestamp>> ELSE <<>>]

\* sampledRecords.slice(i, i + BATCH_SIZE)
batchRecords ==
  SubSeq(sampledRecords, i + 1, Min(i + BATCH_SIZE, Len(sampledRecords)))

\* process.argv[2] || 'gpt-4o-mini'
CliModel(arg) == IF arg = "" THEN "gpt-4o-mini" ELSE arg

\* if (!model)
MissingModel(m) == m = ""

\* nothing has run yet
InitState ==
  /\ batchLog = <<>>
  /\ pausedMs = 0
  /\ varietiesReads = 0
  /\ callResult = <<>>
  /\ dsIdx = 1
  /\ varieties = <<>>
  /\ sampledRecords = <<>>
  /\ mIdx = 1
  /\ i = 0
  /\ batchVarieties = <<>>
  /\ tasks = <<>>
  /\ batchResults = <<>>
  /\ pendingWrites = <<>>
  /\ reports = <<>>
  /\ summaries = <<>>
  /\ runError = ""
  /\ faults = 0
  /\ produced = {}
  /\ saveLog = <<>>

\* the command line handler up to the call of runEvaluation
InitRun ==
  /\ InitState
  /\ pc = IF MissingModel(comparisonModel) THEN "exited" ELSE "main_varieties"
  /\ exitCode = IF MissingModel(comparisonModel) THEN <<1>> ELSE <<>>
  /\ disk = [p \in {} |-> <<>>]
  /\ callArg = <<>>

\* The runs explored: few records with an API that may deviate from the
\* ground truth (a wrong label, a refusal, a message without payload, a
\* failed call) up to a number of times, and the end-to-end runs with an API
\* that always answers the ground truth; the model argument is given or
\* missing.
RunConfigs ==
  {[model |-> cm, datasets |-> ds, numSamples |-> 1,
    faults |-> MaxFaults] : cm \in ComparisonModels, ds \in DatasetChoices}
  \cup
  {[model |-> "gpt-4o-mini", datasets |-> <<"train">>, numSamples |-> 2,
    faults |-> MaxFaults]}
  \cup
  {[model |-> "gpt-4o-mini", datasets |-> ds, numSamples |-> 2,
    faults |-> MaxFaults - 2] : ds \in DatasetChoices}
  \cup
  {[model |-> "gpt-4o-mini", datasets |-> <<"train">>,
    numSamples |-> BATCH_SIZE + 1, faults |-> MaxFaults - 2]}
  \cup
  {[model |-> cm, datasets |-> ds, numSamples |-> n, faults |-> 0] :
     cm \in ComparisonModels, ds \in DatasetChoices, n \in {E2ERecords, -1}}
  \cup
  {[model |-> "", datasets |-> <<"train", "validation">>, numSamples |-> n,
    faults |-> 1] : n \in {1, 2}}

\* the command line: <model> <datasets> <numSamples>
InitConfig(c) ==
  /\ argvModel = c.model
  /\ comparisonModel = CliModel(c.model)
  /\ datasets = c.datasets
  /\ numSamples = c.numSamples
  /\ faultBudget = c.faults

Init ==
  /\ retries = DefaultRetries
  /\ \E c \in RunConfigs : InitConfig(c)
  /\ InitRun

(***************************************************************************)
(* main (runPredictions).                                                  *)
(***************************************************************************)
\* const varieties = await getUniqueVarieties(trainDataPath)
MainGetVarieties ==
  /\ pc = "main_varieties"
  /\ varieties' = getUniqueVarieties(trainDataPath)
  /\ varietiesReads' = varietiesReads + 1
  /\ pc' = "main_read"
  /\ UNCHANGED <<config, outer, batchLog, pausedMs,
                 faults, dsIdx, sampledRecords, mIdx, i,
                 batchVarieties, tasks, batchResults, disk, pendingWrites,
                 reports, summaries, runError, produced, saveLog>>

\* the 'end' handler of the dataset stream, up to the first processBatch
MainReadEnd ==
  /\ pc = "main_read"
  /\ sampledRecords' = sampleRecords(validRecordsOf(datasetPath), numSamples)
  /\ mIdx' = 1
  /\ i' = 0
  /\ pc' = IF Len(sampledRecords') = 0 THEN "analyze" ELSE "pb_varieties"
  /\ UNCHANGED <<config, outer, history,
                 faults, dsIdx, varieties, batchVarieties, tasks,
                 batchResults, disk, pendingWrites, reports, summaries,
                 runError, produced, saveLog>>

\* processBatch after its await of getUniqueVarieties: one closure per
\* record is handed to the limiter
ProcessBatchStart ==
  /\ pc = "pb_varieties"
  /\ batchVarieties' = getUniqueVarieties(trainDataPath)
  /\ varietiesReads' = varietiesReads + 1
  /\ batchLog' = Append(batchLog, [dataset |-> dataset, model |-> model,
                                   startIdx |-> i, records |-> batchRecords])
  /\ tasks' = pLimitNext([k \in 1..Len(batchRecords) |-> NewTask])
  /\ pc' = "batch"
  /\ UNCHANGED <<config, outer, pausedMs,
                 faults, dsIdx, varieties, sampledRecords, mIdx, i,
                 batchResults, disk, pendingWrites, reports, summaries,
                 runError, produced, saveLog>>

Produce(k, t) ==
  IF t.st = "ok"
    THEN produced \cup {[dataset |-> dataset, model |-> model,
                         recordId |-> RecordIdOf(i, k - 1),
                         prediction |-> t.prediction]}
    ELSE produced

\* the API call of closure k settles
ApiRespond(k) ==
  /\ pc = "batch"
  /\ k \in DOMAIN tasks
  /\ tasks[k].st = "calling"
  /\ \E resp \in Responses(batchRecords[k].variety, batchVarieties,
                           faultBudget - faults) :
       LET t == processBatchSettle(
                  getPredictionOnResponse(tasks[k], resp, retries))
       IN /\ tasks' = pLimitNext([tasks EXCEPT ![k] = t])
          /\ produced' = Produce(k, t)
          /\ faults' = IF IsFault(resp, batchRecords[k].variety)
                         THEN faults + 1 ELSE faults
  /\ UNCHANGED <<config, outer, history,
                 pc, dsIdx, varieties, sampledRecords, mIdx, i,
                 batchVarieties, batchResults, disk, pendingWrites, reports,
                 summaries, runError, saveLog>>

\* the backoff delay of closure k elapses
BackoffElapsed(k) ==
  /\ pc = "batch"
  /\ k \in DOMAIN tasks
  /\ tasks[k].st = "backoff"
  /\ tasks' = pLimitNext([tasks EXCEPT ![k] =
                 processBatchSettle(getPredictionAfterDelay(tasks[k], retries))])
  /\ UNCHANGED <<config, outer, history,
                 faults, pc, dsIdx, varieties, sampledRecords,
                 mIdx, i, batchVarieties, batchResults, disk, pendingWrites,
                 reports, summaries, runError, produced, saveLog>>

\* the batch loop after saveResults: the inter-batch delay, the next model,
\* or the end of main
\* the loop left one record early
MoreBatches_offByOne == i + BATCH_SIZE + 1 < Len(sampledRecords)

MoreBatches == i + BATCH_SIZE < Len(sampledRecords)

\* the batch loop without its setTimeout
MainContinue_noDelay ==
  IF MoreBatches
    THEN pc' = "pb_varieties" /\ i' = i + BATCH_SIZE /\ UNCHANGED mIdx
  ELSE IF mIdx < Len(Models)
    THEN pc' = "pb_varieties" /\ mIdx' = mIdx + 1 /\ i' = 0
  ELSE pc' = "analyze" /\ UNCHANGED <<mIdx, i>>

MainContinue ==
  IF MoreBatches
    THEN pc' = "waiting" /\ UNCHANGED <<mIdx, i>>
  ELSE IF mIdx < Len(Models)
    THEN pc' = "pb_varieties" /\ mIdx' = mIdx + 1 /\ i' = 0
  ELSE pc' = "analyze" /\ UNCHANGED <<mIdx, i>>

\* saveResults called without await: main goes on while the write is pending
AwaitsSave_not == FALSE

\* await saveResults(...): main goes on when the write has completed
AwaitsSave == TRUE

Settled(ts) == Fulfilled(ts) \/ Rejected(ts)

\* Promise.all settles; main saves the batch
BatchSettle ==
  /\ pc = "batch"
  /\ Settled(tasks)
  /\ pausedMs' = 0
  /\ IF Rejected(tasks)
       THEN /\ pc' = "fatal"
            /\ runError' = (tasks[CHOOSE k \in DOMAIN tasks :
                                    tasks[k].st = "threw"]).err
            /\ UNCHANGED <<mIdx, i, batchResults, pendingWrites, saveLog>>
       ELSE LET results == batchResultsOf(tasks, batchRecords, i, model)
            IN /\ batchResults' = results
               /\ runError' = runError
               /\ pendingWrites' =
                    IF SkipsWrite(results) THEN pendingWrites
                    ELSE Append(pendingWrites,
                                [results |-> results, model |-> model,
                                 datasetPath |-> datasetPath])
               /\ saveLog' =
                    IF SkipsWrite(results)
                      THEN Append(saveLog,
                             [path |-> PredictionsPath(model,
                                         getDatasetType(datasetPath),
                                         RunTimestamp),
                              results |-> results])
                      ELSE saveLog
               /\ IF SkipsWrite(results) \/ ~AwaitsSave
                    THEN MainContinue
                    ELSE pc' = "saving" /\ UNCHANGED <<mIdx, i>>
  /\ UNCHANGED <<config, outer, batchLog, varietiesReads,
                 faults, dsIdx, varieties, sampledRecords,
                 batchVarieties, tasks, disk, reports, summaries, produced>>

\* csvWriter.writeRecords completes
WriteRecordsDone ==
  /\ pendingWrites # <<>>
  /\ LET w == Head(pendingWrites)
     IN /\ disk' = saveResultsWrite(disk, w.results, w.model, RunTimestamp,
                                    w.datasetPath)
        /\ saveLog' = Append(saveLog,
              [path |-> PredictionsPath(w.model, getDatasetType(w.datasetPath),
                                        RunTimestamp),
               results |-> w.results])
  /\ pendingWrites' = Tail(pendingWrites)
  /\ IF pc = "saving" THEN MainContinue ELSE UNCHANGED <<pc, mIdx, i>>
  /\ UNCHANGED <<config, outer, history,
                 faults, dsIdx, varieties, sampledRecords,
                 batchVarieties, tasks, batchResults, reports, summaries,
                 runError, produced>>

\* await setTimeout(30000) is over: the next batch
InterBatchDelayElapsed ==
  /\ pc = "waiting"
  /\ i' = i + BATCH_SIZE
  /\ pausedMs' = pausedMs + InterBatchDelayMs
  /\ pc' = "pb_varieties"
  /\ UNCHANGED <<config, outer, batchLog, varietiesReads,
                 faults, dsIdx, varieties, sampledRecords, mIdx,
                 batchVarieties, tasks, batchResults, disk, pendingWrites,
                 reports, summaries, runError, produced, saveLog>>

(***************************************************************************)
(* runEvaluation: the analysis of the dataset, then the next dataset.      *)
(***************************************************************************)
\* the files runEvaluation hands to analyzePredictions
BaseModelFile == PredictionsPath(BaseModel, dataset, RunTimestamp)

ComparisonModelFile == PredictionsPath(comparisonModel, dataset, RunTimestamp)

SummaryRow(result) ==
  [model |-> result.model, accuracy |-> result.accuracy,
   totalPredictions |-> result.totalPredictions,
   correctPredictions |-> result.correctPredictions]

Analyze ==
  /\ pc = "analyze"
  /\ \E o \in analyzePredictions(disk, BaseModelFile, ComparisonModelFile) :
       IF o.ok
         THEN /\ reports' = Append(reports, o)
              /\ summaries' = Append(summaries,
                    <<SummaryRow(o.base), SummaryRow(o.comparison)>>)
              /\ dsIdx' = dsIdx + 1
              /\ pc' = IF dsIdx < Len(datasets) THEN "main_varieties" ELSE "done"
              /\ runError' = runError
         ELSE /\ pc' = "fatal"
              /\ runError' = o.error
              /\ UNCHANGED <<reports, summaries, dsIdx>>
  /\ UNCHANGED <<config, outer, history,
                 faults, varieties, sampledRecords, mIdx, i,
                 batchVarieties, tasks, batchResults, disk, pendingWrites,
                 produced, saveLog>>

\* the command line handler: runEvaluation(...).catch(() => process.exit(1));
\* a run that resolves leaves nothing pending and the process ends with 0
ProcessExit ==
  /\ pc \in {"done", "fatal"}
  /\ exitCode' = IF pc = "fatal" THEN <<1>> ELSE <<0>>
  /\ pc' = "exited"
  /\ UNCHANGED <<config, history, faults, dsIdx, varieties, sampledRecords,
                 mIdx, i, batchVarieties, tasks, batchResults, disk,
                 pendingWrites, reports, summaries, runError, produced,
                 saveLog, callArg, callResult>>

Next ==
  \/ MainGetVarieties
  \/ MainReadEnd
  \/ ProcessBatchStart
  \/ \E k \in 1..BATCH_SIZE : ApiRespond(k)
  \/ \E k \in 1..BATCH_SIZE : BackoffElapsed(k)
  \/ BatchSettle
  \/ WriteRecordsDone
  \/ InterBatchDelayElapsed
  \/ Analyze
  \/ ProcessExit

Spec == Init /\ [][Next]_vars

(***************************************************************************)
(* The same pipeline with getPrediction's retry budget drawn from          *)
(* 1..MaxRetries (processBatch leaves it at its default).                  *)
(***************************************************************************)
RetryConfigs ==
  {[model |-> "gpt-4o-mini", datasets |-> <<"train">>,
    numSamples |-> n, faults |-> MaxRetries] : n \in {1, 2}}
  \cup
  {[model |-> "gpt-4o-mini", datasets |-> <<"train">>,
    numSamples |-> BATCH_SIZE + 1, faults |-> 0]}

InitRetries ==
  /\ retries \in 1..MaxRetries
  /\ \E c \in RetryConfigs : InitConfig(c)
  /\ InitRun

SpecRetries == InitRetries /\ [][Next]_vars

(***************************************************************************)
(* The result writer on its own: a caller that awaits each saveResults     *)
(* call and makes up to MaxSaves of them, with any of a few batches of     *)
(* predictions, for either model and either dataset.                       *)
(***************************************************************************)
WriterRecords == validRecordsOf(trainDataPath)

WriterResult(m, recordId) ==
  PredictionResult(WriterRecords[recordId + 1], recordId, m,
                   WriterRecords[recordId + 1].variety)

WriterBatches(m) ==
  {<<>>, <<WriterResult(m, 0)>>, <<WriterResult(m, 0), WriterResult(m, 1)>>,
   <<WriterResult(m, 2)>>}

InitWriter ==
  /\ retries = DefaultRetries
  /\ InitConfig([model |-> "gpt-4o-mini",
                 datasets |-> <<"train", "validation">>, numSamples |-> -1,
                 faults |-> 0])
  /\ InitRun

\* saveResults(results, model, timestamp, datasetPath) is called
SaveResultsCall ==
  /\ pendingWrites = <<>>
  /\ Len(saveLog) < MaxSaves
  /\ \E m \in {BaseModel, comparisonModel},
        path \in {trainDataPath, validationDataPath} :
       \E results \in WriterBatches(m) :
         /\ pendingWrites' =
              IF SkipsWrite(results) THEN pendingWrites
              ELSE <<[results |-> results, model |-> m, datasetPath |-> path]>>
         /\ saveLog' =
              IF SkipsWrite(results)
                THEN Append(saveLog,
                       [path |-> PredictionsPath(m, getDatasetType(path),
                                                 RunTimestamp),
                        results |-> results])
                ELSE saveLog
  /\ UNCHANGED <<config, outer, history,
                 faults, pc, dsIdx, varieties, sampledRecords, mIdx, i,
                 batchVarieties, tasks, batchResults, disk, reports, summaries,
                 runError, produced>>

NextWriter == SaveResultsCall \/ WriteRecordsDone

SpecWriter == InitWriter /\ [][NextWriter]_vars

(***************************************************************************)
(* The dataset reader of main on its own: the rows of a file of up to      *)
(* ReaderRows rows, each well-formed or lacking one required field.        *)
(***************************************************************************)
ReaderRow(r, kind) ==
  [winery      |-> IF kind = "winery" THEN "" ELSE "W" \o ToString(r),
   variety     |-> IF kind = "variety" THEN ""
                   ELSE AllLabels[((r - 1) % NumLabels) + 1],
   description |-> IF kind = "description" THEN "" ELSE "notes"]

RowKinds == {"complete", "winery", "variety", "description"}

ReaderFiles ==
  UNION {{[r \in 1..n |-> ReaderRow(r, f[r])] : f \in [1..n -> RowKinds]} :
           n \in 0..ReaderRows}

HarnessConfig ==
  [model |-> "gpt-4o-mini", datasets |-> <<"train">>, numSamples |-> -1,
   faults |-> 0]

InitHarness ==
  /\ retries = DefaultRetries
  /\ InitConfig(HarnessConfig)
  /\ InitState
  /\ exitCode = <<>>

InitReader ==
  /\ InitHarness
  /\ pc = "call"
  /\ disk = [p \in {} |-> <<>>]
  /\ callArg \in ReaderFiles

\* the dataset stream of main from its first row to its 'end' event
ReadDatasetCall ==
  /\ pc = "call"
  /\ callResult' = validRecords(callArg)
  /\ pc' = "returned"
  /\ UNCHANGED <<config, history, faults, dsIdx, varieties, sampledRecords,
                 mIdx, i, batchVarieties, tasks, batchResults, disk,
                 pendingWrites, reports, summaries, runError, exitCode,
                 produced, saveLog, callArg>>

NextReader == ReadDatasetCall

SpecReader == InitReader /\ [][NextReader]_vars

(***************************************************************************)
(* calculateWineAccuracy on its own: any list of up to MaxPredictions      *)
(* predictions as readPredictionsFile returns them, each right or wrong.   *)
(***************************************************************************)
PredictionLine(recordId, predicted, actual) ==
  <<ToString(recordId), BaseModel, predicted, IsoNow,
    "W" \o ToString(recordId), actual, actual>>

Guesses ==
  {<<AllLabels[1], AllLabels[1]>>, <<AllLabels[2], AllLabels[1]>>,
   <<AllLabels[1], AllLabels[2]>>}

PredictionLists ==
  UNION {{[k \in 1..n |-> mapRecord(PredictionLine(k - 1, f[k][1], f[k][2]))] :
            f \in [1..n -> Guesses]} : n \in 0..MaxPredictions}

InitAccuracy ==
  /\ InitHarness
  /\ pc = "call"
  /\ disk = [p \in {} |-> <<>>]
  /\ callArg \in PredictionLists

CalculateCall ==
  /\ pc = "call"
  /\ callResult' = calculateWineAccuracy(callArg)
  /\ pc' = "returned"
  /\ UNCHANGED <<config, history, faults, dsIdx, varieties, sampledRecords,
                 mIdx, i, batchVarieties, tasks, batchResults, disk,
                 pendingWrites, reports, summaries, runError, exitCode,
                 produced, saveLog, callArg>>

NextAccuracy == CalculateCall

SpecAccuracy == InitAccuracy /\ [][NextAccuracy]_vars

(***************************************************************************)
(* analyzePredictions on its own: runEvaluation at its analysis step with  *)
(* any two prediction files, each missing, empty, without a valid line or  *)
(* with valid lines.                                                       *)
(***************************************************************************)
\* a line whose Model cell is a number: typeof record.model is not 'string'
InvalidLine ==
  <<"0", "7", AllLabels[1], IsoNow, "W0", AllLabels[1], AllLabels[1]>>

AnalyzerFiles ==
  {[exists |-> FALSE, lines |-> <<>>]} \cup
  {[exists |-> TRUE, lines |-> l] :
     l \in {<<>>, <<InvalidLine>>, <<InvalidLine, InvalidLine>>,
            <<PredictionLine(0, AllLabels[1], AllLabels[1])>>,
            <<PredictionLine(0, AllLabels[2], AllLabels[1])>>,
            <<InvalidLine, PredictionLine(1, AllLabels[1], AllLabels[1])>>,
            <<PredictionLine(0, AllLabels[1], AllLabels[1]),
              PredictionLine(1, AllLabels[2], AllLabels[1])>>}}

AnalyzerDisk(base, comp) ==
  [p \in (IF base.exists THEN {BaseModelFile} ELSE {}) \cup
         (IF comp.exists THEN {ComparisonModelFile} ELSE {}) |->
     IF p = BaseModelFile THEN base.lines ELSE comp.lines]

InitAnalyzer ==
  /\ InitHarness
  /\ pc = "analyze"
  /\ callArg = <<>>
  /\ \E base \in AnalyzerFiles, comp \in AnalyzerFiles :
       disk = AnalyzerDisk(base, comp)

NextAnalyzer == Analyze \/ ProcessExit

SpecAnalyzer == InitAnalyzer /\ [][NextAnalyzer]_vars

(***************************************************************************)
(* The claims.                                                             *)
(***************************************************************************)
RecordErrors ==
  {"API call failed", "Model refused to classify", "No valid response received"}

\* C1: a refusal of the remote API ends getPrediction for the record: the
\* closure whose last response is a refusal has thrown (the record is
\* skipped) and has neither slept nor called again.
C1_RefusalIsNotRetried ==
  \A k \in DOMAIN tasks :
    tasks[k].response.kind = "refusal" =>
      /\ tasks[k].st = "null"
      /\ tasks[k].err = "Model refused to classify"

\* the delays slept after the failed attempts 1..n, in milliseconds
ExpectedWaits(n) == [j \in 1..n |-> (2 ^ j) * 1000]

\* C2: with a retry budget N = retries, a getPrediction whose attempts all
\* fail makes exactly N API calls, sleeps 2^k seconds after the k-th failed
\* attempt for each k < N and not after the N-th, and throws an error; it
\* returns a label only when its last response carries a structured payload.
C2_ExhaustedRetries ==
  \A k \in DOMAIN tasks :
    LET t == tasks[k]
    IN /\ t.calls <= retries
       /\ t.st = "backoff" =>
            t.attempt < retries /\ t.waits = ExpectedWaits(t.attempt)
       /\ t.st = "null" =>
            /\ t.calls = retries
            /\ t.waits = ExpectedWaits(retries - 1)
            /\ t.err \in RecordErrors
            /\ t.response.kind # "parsed"
            /\ t.prediction = ""
       /\ t.st = "ok" =>
            /\ t.response.kind = "parsed"
            /\ t.prediction = t.response.variety
            /\ t.prediction # ""

\* a getPrediction with the largest budget has failed on every attempt
C2_Witness ==
  /\ retries = MaxRetries
  /\ \E k \in DOMAIN tasks :
       tasks[k].st = "null" /\ tasks[k].calls = MaxRetries

\* the row of a returned label is in the prediction file of its model and
\* dataset
OnDisk(p) ==
  LET path == PredictionsPath(p.model, p.dataset, RunTimestamp)
  IN /\ path \in DOMAIN disk
     /\ \E n \in 1..Len(disk[path]) :
          /\ disk[path][n][1] = ToString(p.recordId)
          /\ disk[path][n][2] = p.model
          /\ disk[path][n][3] = p.prediction

\* C3: a getPrediction whose attempt k <= budget receives a structured
\* payload after k-1 failed attempts returns the label of that payload and
\* makes no further call (k calls, k-1 delays), and once main has finished
\* the dataset every returned label is in the output file of its model.
C3_RetryThenSuccess ==
  /\ \A k \in DOMAIN tasks :
       tasks[k].st = "ok" =>
         /\ tasks[k].response.kind = "parsed"
         /\ tasks[k].prediction = tasks[k].response.variety
         /\ tasks[k].calls = tasks[k].attempt
         /\ tasks[k].attempt <= retries
         /\ Len(tasks[k].waits) = tasks[k].attempt - 1
  /\ pc \in {"analyze", "done"} => \A p \in produced : OnDisk(p)

\* fail, fail, succeed with budget 3: the label of the third attempt is in
\* the output file
C3_Witness ==
  /\ pc = "analyze"
  /\ \E k \in DOMAIN tasks :
       /\ tasks[k].st = "ok"
       /\ tasks[k].attempt = 3
       /\ Len(tasks[k].waits) = 2
       /\ OnDisk([dataset |-> dataset, model |-> model, recordId |-> i + k - 1,
                  prediction |-> tasks[k].prediction])

\* the API calls in flight
InFlight == Cardinality({k \in DOMAIN tasks : tasks[k].st = "calling"})

\* C4: at most 3 API calls are in flight in any state of a run.
C4_InFlightBounded == InFlight <= 3

\* three calls in flight, one of them a retry, while a closure is queued
C4_Witness ==
  /\ InFlight = 3
  /\ \E k \in DOMAIN tasks : tasks[k].st = "queued"
  /\ \E k \in DOMAIN tasks : tasks[k].st = "calling" /\ tasks[k].attempt > 1

\* C5: processBatch never rejects because of a record, and resolves with
\* one prediction for each record whose getPrediction returned, none for a
\* record whose getPrediction threw, in the order of the records.
C5_BatchResolvesInOrder ==
  /\ runError \notin RecordErrors \cup {"All retries failed"}
  /\ pc \in {"saving", "waiting"} =>
       /\ Len(batchResults) =
            Cardinality({k \in DOMAIN tasks : tasks[k].st = "ok"})
       /\ \A k \in DOMAIN tasks :
            /\ tasks[k].st \in {"ok", "null"}
            /\ tasks[k].st = "ok" =>
                 \E j \in DOMAIN batchResults :
                   /\ batchResults[j].recordId = i + k - 1
                   /\ batchResults[j].prediction = tasks[k].response.variety
                   /\ batchResults[j].model = model
                   /\ batchResults[j].actual_variety = batchRecords[k].variety
            /\ tasks[k].st = "null" =>
                 \A j \in DOMAIN batchResults :
                   batchResults[j].recordId # i + k - 1
       /\ \A j1, j2 \in DOMAIN batchResults :
            j1 < j2 => batchResults[j1].recordId < batchResults[j2].recordId

\* a batch resolved with the prediction of a record that follows a failed one
C5_Witness ==
  /\ pc = "saving"
  /\ \E k1, k2 \in DOMAIN tasks :
       k1 < k2 /\ tasks[k1].st = "null" /\ tasks[k2].st = "ok"

\* C6: no failure of records ends the run with a fatal error.
C6_RecordFailuresNeverAbort == pc # "fatal" /\ runError = ""

\* C7: a returned label that is not yet in its output file belongs to the
\* batch in process; no write is pending while a request of a batch can be
\* issued or is in flight, and at most one write is pending at a time.
C7_SavedBeforeNextBatch ==
  /\ Len(pendingWrites) <= 1
  /\ pc \in {"pb_varieties", "batch", "waiting"} => pendingWrites = <<>>
  /\ InFlight > 0 => pendingWrites = <<>>
  /\ \A p \in produced :
       OnDisk(p) \/ (/\ pc \in {"batch", "saving"}
                     /\ p.dataset = dataset
                     /\ p.model = model
                     /\ p.recordId >= i)

\* requests of a second batch are in flight and the labels of the first
\* batch are in the file
C7_Witness ==
  /\ pc = "batch"
  /\ i > 0
  /\ InFlight > 0
  /\ \E p \in produced :
       p.dataset = dataset /\ p.model = model /\ p.recordId < i /\ OnDisk(p)

\* the sampled input of a dataset
SampledInput(datasetType) ==
  sampleRecords(validRecordsOf(DatasetPath(datasetType)), numSamples)

\* C10: every prediction file holds at most one row per record, and every
\* row is the row of a record of the sampled input: its recordId is that
\* record's index, its actual_variety that record's variety, its model the
\* model of the file.
C10_OnePredictionPerRecord ==
  \A path \in DOMAIN disk :
    LET lines == disk[path]
        input == SampledInput(path.datasetType)
    IN /\ \A n \in 1..Len(lines) :
            \E id \in 0..(Len(input) - 1) :
              /\ lines[n][1] = ToString(id)
              /\ lines[n][2] = path.model
              /\ lines[n][5] = input[id + 1].winery
              /\ lines[n][7] = input[id + 1].variety
       /\ \A n1, n2 \in 1..Len(lines) :
            n1 # n2 => lines[n1][1] # lines[n2][1]

\* a file holds the rows of two batches
C10_Witness ==
  \E path \in DOMAIN disk : Len(disk[path]) > BATCH_SIZE

\* the predictions of the completed saveResults calls for a file, in call
\* order
RECURSIVE SavedResults(_, _)
SavedResults(log, path) ==
  IF log = <<>> THEN <<>>
  ELSE (IF Head(log).path = path THEN Head(log).results ELSE <<>>)
         \o SavedResults(Tail(log), path)

\* the lines are the rows of the predictions, one each, in order
RowsOf(lines, results) ==
  /\ Len(lines) = Len(results)
  /\ \A n \in 1..Len(lines) :
       /\ lines[n][1] = ToString(results[n].recordId)
       /\ lines[n][2] = results[n].model
       /\ lines[n][3] = results[n].prediction
       /\ lines[n][4] = results[n].timestamp
       /\ lines[n][5] = results[n].winery
       /\ lines[n][6] = results[n].variety
       /\ lines[n][7] = results[n].actual_variety

PredictionPaths ==
  {PredictionsPath(m, d, RunTimestamp) :
     m \in {BaseModel, comparisonModel}, d \in {"train", "validation"}}

ReportsAllCorrect(r, n) ==
  /\ r.base.totalPredictions = n
  /\ r.base.accuracy = <<n, n>>
  /\ r.base.incorrectExamples = <<>>
  /\ r.comparison.totalPredictions = n
  /\ r.comparison.accuracy = <<n, n>>
  /\ r.comparison.incorrectExamples = <<>>

\* the files of the analysed datasets, one per model
AnalysedFiles ==
  {PredictionsPath(m, datasets[d], RunTimestamp) :
     m \in {BaseModel, comparisonModel}, d \in 1..Len(reports)}

Hits(predictions) ==
  {k \in DOMAIN predictions :
     predictions[k].prediction = predictions[k].actual_variety}

C11_AccuracyMetrics ==
  pc = "returned" =>
    IF Len(callArg) = 0
      THEN /\ ~callResult.ok
           /\ callResult.error = "No predictions to analyze"
           /\ "accuracy" \notin DOMAIN callResult
      ELSE /\ callResult.ok
           /\ callResult.totalPredictions = Len(callArg)
           /\ callResult.correctPredictions = Cardinality(Hits(callArg))
           /\ callResult.accuracy = <<Cardinality(Hits(callArg)), Len(callArg)>>
           /\ 0 <= callResult.accuracy[1]
           /\ callResult.accuracy[1] <= callResult.accuracy[2]
           /\ (Hits(callArg) = DOMAIN callArg) =>
                callResult.accuracy[1] = callResult.accuracy[2]
           /\ (Hits(callArg) = {}) => callResult.accuracy[1] = 0

C11_Witness ==
  /\ pc = "returned"
  /\ callResult.ok
  /\ callResult.totalPredictions = 3
  /\ callResult.correctPredictions = 2

\* C18: the incorrectExamples of calculateWineAccuracy are the first five
\* mismatching predictions in input order, all of them when there are fewer:
\* min(5, total - correct) entries, none of them a correct prediction.
Misses(predictions) == DOMAIN predictions \ Hits(predictions)

NthMiss(predictions, n) ==
  CHOOSE k \in Misses(predictions) :
    Cardinality({q \in Misses(predictions) : q <= k}) = n

C18_FirstFiveMismatches ==
  (pc = "returned" /\ callResult.ok) =>
    LET examples == callResult.incorrectExamples
    IN /\ Len(examples) =
            Min(5, callResult.totalPredictions - callResult.correctPredictions)
       /\ \A n \in 1..Len(examples) :
            LET prediction == callArg[NthMiss(callArg, n)]
            IN /\ examples[n].winery = prediction.winery
               /\ examples[n].predicted = prediction.prediction
               /\ examples[n].actual = prediction.actual_variety
               /\ examples[n].predicted # examples[n].actual

C18_Witness ==
  /\ pc = "returned"
  /\ callResult.ok
  /\ callResult.totalPredictions - callResult.correctPredictions > 5
  /\ Len(callResult.incorrectExamples) = 5
  /\ callResult.correctPredictions > 0

\* C13: of a file with K well-formed rows and M rows that lack winery,
\* variety or description, the dataset reader returns the K well-formed rows,
\* in file order; a malformed row is skipped and fails nothing.
WellFormed(file) ==
  {r \in DOMAIN file :
     file[r].winery # "" /\ file[r].variety # "" /\ file[r].description # ""}

NthWellFormed(file, n) ==
  CHOOSE r \in WellFormed(file) :
    Cardinality({q \in WellFormed(file) : q <= r}) = n

FirstBaseFile == PredictionsPath(BaseModel, datasets[1], RunTimestamp)

FirstComparisonFile ==
  PredictionsPath(comparisonModel, datasets[1], RunTimestamp)

YieldsNoRecord(path) ==
  /\ path \in DOMAIN disk
  /\ \A k \in DOMAIN disk[path] : IsNumeric(disk[path][k][2])

YieldsRecord(path) ==
  /\ path \in DOMAIN disk
  /\ \E k \in DOMAIN disk[path] : ~IsNumeric(disk[path][k][2])

C12_EmptyFileFailsAnalysis ==
  pc # "analyze" =>
    /\ (YieldsNoRecord(FirstBaseFile) \/ YieldsNoRecord(FirstComparisonFile)) =>
         /\ runError \in {"No valid records found", "File not found"}
         /\ summaries = <<>>
         /\ exitCode # <<0>>
    /\ (runError = "No valid records found") =>
         YieldsNoRecord(FirstBaseFile) \/ YieldsNoRecord(FirstComparisonFile)
    /\ (YieldsRecord(FirstBaseFile) /\ YieldsRecord(FirstComparisonFile)) =>
         runError = "" /\ Len(summaries) = 1

C12_Witness ==
  /\ pc = "fatal"
  /\ YieldsRecord(FirstBaseFile)
  /\ FirstComparisonFile \in DOMAIN disk
  /\ disk[FirstComparisonFile] = <<>>
  /\ runError = "No valid records found"
  /\ summaries = <<>>

\* C14: the command line ends with exit code 1, and never with 0, when the
\* comparison-model argument is missing and when the pipeline fails with an
\* error that is not recovered.
C14_ExitOneOnMissingArgumentOrFailure ==
  (pc = "exited" /\ (argvModel = "" \/ runError # "")) => exitCode = <<1>>

\* C15: the batch loop cuts the B sampled records into ceil(B / S) batches of
\* batch size S: the batches are contiguous slices in input order, every one
\* but possibly the last has S records, and every record is in exactly one
\* batch.
InBatchLoop == pc \in {"pb_varieties", "batch", "saving", "waiting", "analyze"}

BatchesOf(m) ==
  SelectSeq(batchLog, LAMBDA b : b.dataset = dataset /\ b.model = m)

RECURSIVE Flatten(_)
Flatten(batches) ==
  IF batches = <<>> THEN <<>>
  ELSE Head(batches).records \o Flatten(Tail(batches))

ExpectedBatches == (Len(sampledRecords) + BATCH_SIZE - 1) \div BATCH_SIZE

LoopOver(m) ==
  \/ pc = "analyze"
  \/ m = BaseModel /\ mIdx = 2

C15_BatchesPartitionTheSample ==
  InBatchLoop =>
    \A m \in {BaseModel, comparisonModel} :
      LET batches == BatchesOf(m)
      IN /\ Len(batches) <= ExpectedBatches
         /\ \A j \in 1..Len(batches) :
              /\ batches[j].startIdx = (j - 1) * BATCH_SIZE
              /\ batches[j].records =
                   SubSeq(sampledRecords, (j - 1) * BATCH_SIZE + 1,
                          Min(j * BATCH_SIZE, Len(sampledRecords)))
              /\ j < Len(batches) => Len(batches[j].records) = BATCH_SIZE
              /\ Len(batches[j].records) \in 1..BATCH_SIZE
         /\ LoopOver(m) =>
              /\ Len(batches) = ExpectedBatches
              /\ Flatten(batches) = sampledRecords

C15_Witness ==
  /\ pc = "analyze"
  /\ Len(BatchesOf(comparisonModel)) = 3
  /\ Len(BatchesOf(comparisonModel)[3].records) < BATCH_SIZE
  /\ Len(BatchesOf(BaseModel)) = 3

\* C16: once a batch of the run has completed, no request of a following
\* batch is issued before the inter-batch delay of 30 seconds has elapsed.
RequestIssued == pc = "batch" /\ \E k \in DOMAIN tasks : tasks[k].calls > 0

C16_EveryBatchPacedByDelay ==
  (RequestIssued /\ Len(batchLog) > 1) => pausedMs >= 30000

\* C16, amended: the delay of 30 seconds separates the batches of one model
\* over one dataset; the first batch of the comparison model and the first
\* batch of the next dataset follow the batch before them without it.
C16_DelayWithinOneModelPass ==
  RequestIssued => pausedMs = (IF i > 0 THEN 30000 ELSE 0)

C16_Witness ==
  /\ RequestIssued
  /\ i > 0
  /\ mIdx = 2
  /\ pausedMs = 30000

\* C17: the label set is computed once per run, before any request is
\* issued, and never changed: the requesters of every batch, for both
\* models, use that one label set.
C17_LabelSetComputedOnce ==
  /\ varietiesReads <= 1
  /\ RequestIssued => (varietiesReads = 1 /\ batchVarieties = varieties)

\* C19: a remote call asks for its completion to be stored (store = true
\* with metadata) only when it is a call of the base model on the training
\* dataset and the comparison model is gpt-4o-mini; no call made while the
\* validation dataset is processed, and no call of the comparison model, is
\* stored.
C19_StoredOnlyBaseModelOnTrain ==
  (RequestIssued /\ RequestBody.store) =>
    /\ RequestBody.model = "gpt-4o"
    /\ dataset = "train"
    /\ comparisonModel = "gpt-4o-mini"
    /\ RequestBody.metadata # <<>>

====
